---- MODULE Spec2Model ----
(***************************************************************************)
(* Model of the authorization core of the backend                          *)
(* (src/nexus/services/backend): JWT login / refresh / logout / verify,    *)
(* the cached permission resolver, the DRF permission gate and the user    *)
(* lifecycle operations (create / update / soft delete / role changes).    *)
(*                                                                         *)
(* The specifications share the variables:                                 *)
(*   Spec      sequential requests against the account / permission state  *)
(*   SpecAuth  the token endpoints over a clock                            *)
(*   SpecSeed  seed_roles run again over accounts that hold the roles      *)
(*   SpecGate  the permission gate evaluated between role changes          *)
(*   SpecRace  a role change or delete next to a cache-aside resolver      *)
(*   SpecLife  accounts and profiles through create, update, delete        *)
(*   SpecQuota create against the ceiling of active accounts               *)
(*   SpecNoBlacklist  the token endpoints without the blacklist app        *)
(*   SpecPassword  password changes between role changes                   *)
(*   SpecProfile  soft delete, restore and hard delete of profiles         *)
(*   SpecMiss  resolving calls that overlap on a cache miss                *)
(*   SpecResolve  the resolver for accounts, missing ids and anonymous     *)
(*   SpecInvalidate  invalidate and invalidate_group                       *)
(*   SpecWait  one run of wait_for_db                                      *)
(*   SpecCeiling  create requests in flight together                       *)
(***************************************************************************)
EXTENDS Integers, FiniteSets, Sequences, TLC

\* ------------------------------------------------------------------------
\* Bounds of the model
\* ------------------------------------------------------------------------
MaxUsers == 2
MaxTime == 6
MaxLogins == 2
MaxAccess == 2
\* ids in the group_ids list of one request
MaxGroupIds == 1
\* accounts beyond UserIds
MaxUntracked == 10
\* resolving calls in flight at once
MaxCalls == 2
\* create requests in flight at once
MaxCreates == 2

\* ------------------------------------------------------------------------
\* Program constants
\* ------------------------------------------------------------------------
\* base.py: SIMPLE_JWT lifetimes, in minutes
ACCESS_TOKEN_LIFETIME == 2
REFRESH_TOKEN_LIFETIME == 5
\* base.py: SIMPLE_JWT rotation switches
ROTATE_REFRESH_TOKENS == TRUE
BLACKLIST_AFTER_ROTATION == TRUE
\* base.py: INSTALLED_APPS contains rest_framework_simplejwt.token_blacklist
BLACKLIST_INSTALLED == TRUE
\* services.py: create_user, limit of the plan
max_users == 10
\* wait_for_db.py: attempts, and seconds between two of them
max_retries == 30
retry_delay == 1

UserIds == 1..MaxUsers
\* request.user of a request without credentials (AnonymousUser)
Anon == 0
\* the account createsuperuser_auto creates at bootstrap
AdminId == 1

ViewUser == "auth.view_user"
AddUser == "auth.add_user"
ChangeUser == "auth.change_user"
DeleteUser == "auth.delete_user"
\* Permission.objects.all()
AllPermissions == {ViewUser, AddUser, ChangeUser, DeleteUser}

Administradores == "Administradores"
Operadores == "Operadores"
Usuarios == "Usuarios"
Groups == {Administradores, Operadores, Usuarios}
\* a group id with no row behind it
NoSuchGroup == "NoSuchGroup"

\* seed_roles.py: roles_config
RolesConfig ==
    [g \in Groups |->
        CASE g = Administradores -> AllPermissions
          [] g = Operadores -> {ViewUser, AddUser, ChangeUser}
          [] OTHER -> {ViewUser}]

\* views.py: UserViewSet.required_permissions
MappedActions ==
    {"list", "retrieve", "create", "update", "partial_update", "destroy",
     "me", "change_password"}
required_permissions ==
    [a \in MappedActions |->
        CASE a \in {"list", "retrieve"} -> {ViewUser}
          [] a = "create" -> {AddUser}
          [] a \in {"update", "partial_update"} -> {ChangeUser}
          [] a = "destroy" -> {DeleteUser}
          [] OTHER -> {}]
\* an action name without an entry, and a view without an action
ViewActions == MappedActions \cup {"groups", "none"}

VARIABLES
    exists,         \* ids of the User rows
    active,         \* ids with is_active = True
    superuser,      \* ids with is_superuser = True
    groups,         \* user id -> set of group names (user.groups)
    directPerms,    \* user id -> user.user_permissions
    groupPerms,     \* group name -> group.permissions
    deletedAt,      \* ids whose profile has deleted_at set
    profiles,       \* user id -> number of UserProfile rows of the user
    employeeId,     \* user id -> employee_id of the profile (unique)
    untracked,      \* active User rows beyond UserIds (they send nothing)
    password,       \* user id -> stored password hash
    cache,          \* the cache: user id -> cached permission set (partial)
    last,           \* outcome of the last account request
    now,            \* clock, minutes
    refreshIssued,  \* refresh tokens minted so far
    accessIssued,   \* access tokens minted so far
    blacklist,      \* jti of the BlacklistedToken rows
    resp,           \* outcome of the last token request
    mpc,            \* SpecRace: where the role-changing call stands
    mcall,          \* SpecRace: its operation, target and group
    rpc,            \* SpecRace: where the resolving call stands
    rcall,          \* SpecRace: its user and the permissions it computed
    calls,          \* SpecMiss: the resolving calls in flight, by call id
    wdb,            \* SpecWait: where the wait_for_db command stands
    creating        \* SpecCeiling: where each create request stands

profVars == <<profiles, employeeId, untracked>>
acctVars == <<exists, active, superuser, groups, directPerms, groupPerms,
              deletedAt, password, cache, last, profiles, employeeId,
              untracked>>
tokVars == <<now, refreshIssued, accessIssued, blacklist, resp>>
raceVars == <<mpc, mcall, rpc, rcall, calls, wdb, creating>>
vars == <<exists, active, superuser, groups, directPerms, groupPerms,
          deletedAt, password, cache, last, now, refreshIssued, accessIssued,
          blacklist, resp, mpc, mcall, rpc, rcall, profiles, employeeId,
          untracked, calls, wdb, creating>>

\* ------------------------------------------------------------------------
\* Permission resolver (apps/core/permissions.py)
\* ------------------------------------------------------------------------

\* User.get_all_permissions() through ModelBackend: nothing for an inactive
\* user, everything for a superuser, else direct grants and group grants.
GetAllPermissions(act, su, grp, dp, gp, u) ==
    IF u \notin act THEN {}
    ELSE IF u \in su THEN AllPermissions
    ELSE dp[u] \cup UNION {gp[g] : g \in grp[u]}

\* the permissions of u in the current state
EffectivePerms(u) ==
    GetAllPermissions(active, superuser, groups, directPerms, groupPerms, u)

\* cache.get(key) is not None
CacheHit(c, u) == u \in DOMAIN c

\* cache.set(key, perms, timeout=3600)
CacheSetNoop(c, u, perms) == c
CacheSet(c, u, perms) ==
    [k \in DOMAIN c \cup {u} |-> IF k = u THEN perms ELSE c[k]]

\* invalidate_user_permissions_cache: cache.delete(key)
InvalidateNoop(c, u) == c
invalidate_user_permissions_cache(c, u) ==
    [k \in DOMAIN c \ {u} |-> c[k]]

\* get_user_permissions_cached: the value returned, fresh being what
\* get_all_permissions() yields on a miss
ResolveValueRecomputed(c, u, fresh) == IF u = Anon THEN {} ELSE fresh
ResolveValue(c, u, fresh) ==
    IF u = Anon THEN {}
    ELSE IF CacheHit(c, u) THEN c[u]
    ELSE fresh

\* get_user_permissions_cached: the cache it leaves behind
ResolveCache(c, u, fresh) ==
    IF u = Anon \/ CacheHit(c, u) THEN c
    ELSE CacheSet(c, u, fresh)

\* has_permission(user, permission_codename)
has_permission(c, u, fresh, perm) == perm \in ResolveValue(c, u, fresh)

\* HasPermission.has_permission(request, view): the decision
GateDenyUnmapped(c, u, su, fresh, action) ==
    IF u = Anon THEN FALSE
    ELSE IF u \in su THEN TRUE
    ELSE IF action \notin MappedActions THEN FALSE
    ELSE required_permissions[action] \subseteq ResolveValue(c, u, fresh)
HasPermission(c, u, su, fresh, action) ==
    IF u = Anon THEN FALSE
    ELSE IF u \in su THEN TRUE
    ELSE IF action \notin MappedActions THEN TRUE
    ELSE required_permissions[action] \subseteq ResolveValue(c, u, fresh)

\* HasPermission.has_permission: the cache it leaves behind (it resolves
\* only when it reaches the permission comparison)
HasPermissionCache(c, u, su, fresh, action) ==
    IF u = Anon \/ u \in su \/ action \notin MappedActions THEN c
    ELSE ResolveCache(c, u, fresh)

\* UserViewSet.get_queryset: is the row of target in the queryset of actor
InQueryset(c, actor, su, fresh, target) ==
    \/ actor \in su
    \/ has_permission(c, actor, fresh, ViewUser)
    \/ target = actor

\* get_queryset resolves the actor unless the actor is a superuser
QuerysetCache(c, actor, su, fresh) ==
    IF actor \in su THEN c ELSE ResolveCache(c, actor, fresh)

\* ------------------------------------------------------------------------
\* Passwords and the empty cache
\* ------------------------------------------------------------------------
EmptyCache == [k \in {} |-> {}]

\* UserPermissionCache.invalidate_group: the loop `for user_id in user_ids:
\* cls.delete(user_id)` over the ids in S
RECURSIVE DeleteEach(_, _)
DeleteEach(c, S) ==
    IF S = {} THEN c
    ELSE LET u == CHOOSE x \in S : TRUE
         IN  DeleteEach(invalidate_user_permissions_cache(c, u), S \ {u})

\* UserPermissionCache.invalidate_group(group_id): Group.objects.get, then
\* every id of group.user_set; Group.DoesNotExist is logged and nothing
\* else happens.  ex are the user rows, grp their memberships.
InvalidateGroupFlush(c, ex, grp, g) == EmptyCache
invalidate_group(c, ex, grp, g) ==
    IF g \notin Groups THEN c
    ELSE DeleteEach(c, {u \in ex : g \in grp[u]})

\* raw passwords a request may carry; the accounts start with the first
InitialPassword == "pw-a"
Passwords == {"pw-a", "pw-b"}

\* django.contrib.auth.hashers: the stored value is not the raw password,
\* and check_password compares the hash of the candidate
make_password(raw) == <<"pbkdf2_sha256", raw>>
check_password(stored, raw) == stored = make_password(raw)

\* ------------------------------------------------------------------------
\* Profiles (apps/users/domain/models.py, apps/core/models.py)
\* ------------------------------------------------------------------------
\* employee_id values a request may carry; a profile starts without one
NoEmployeeId == "none"
EmployeeIds == {"E-1"}

\* post_save receiver create_user_profile: the rows of the user's profile
\* after User.save(), n being their number before
ProfileNotCreated(n, created) == n
create_user_profile(n, created) == IF created THEN n + 1 ELSE n

\* unique=True on employee_id: does a profile other than u's hold e
EmployeeIdTaken(e, u) ==
    /\ e # NoEmployeeId
    /\ \E v \in exists \ {u} : employeeId[v] = e

\* SoftDeleteModel.delete: deleted_at = now, the row stays
SoftDeleteNoop(del, u) == del
soft_delete(del, u) == del \cup {u}

\* SoftDeleteModel.restore: deleted_at = None
RestoreNoop(del, u) == del
restore(del, u) == del \ {u}

\* SoftDeleteModel.is_deleted: deleted_at is not None
is_deleted(del, u) == u \in del

\* SoftDeleteModel.hard_delete: models.Model.delete removes the row; n is
\* the number of profile rows of the user before
hard_delete(n) == n - 1

\* UserService.create_user: the ceiling of the plan, n active users counted
QuotaOffByOne(n) == n > max_users
QuotaReached(n) == n >= max_users

\* ------------------------------------------------------------------------
\* Outcomes
\* ------------------------------------------------------------------------
NoResult ==
    [op |-> "init", actor |-> Anon, target |-> Anon, status |-> 0,
     err |-> "", changed |-> {}, action |-> "none",
     allowed |-> FALSE, value |-> {}]

Result(op, actor, target, status, err) ==
    [NoResult EXCEPT !.op = op, !.actor = actor, !.target = target,
                     !.status = status, !.err = err]

\* ------------------------------------------------------------------------
\* Request inputs
\* ------------------------------------------------------------------------
GroupIdChoices ==
    {ids \in SUBSET Groups : Cardinality(ids) <= MaxGroupIds}
        \cup {{NoSuchGroup}}

\* validated_data of UserUpdateSerializer: the keys present and their values
UpdateInputs ==
    {d \in [has_active : BOOLEAN, is_active : BOOLEAN,
            has_groups : BOOLEAN, group_ids : GroupIdChoices,
            employee_id : EmployeeIds \cup {NoEmployeeId}] :
        /\ (~d.has_active => d.is_active)
        /\ (~d.has_groups => d.group_ids = {})}

\* validated_data of UserCreateSerializer
CreateInputs ==
    [is_active : BOOLEAN, group_ids : GroupIdChoices,
     employee_id : EmployeeIds \cup {NoEmployeeId}]

\* requests that carry no profile field
NoProfileData(d) == d.employee_id = NoEmployeeId

\* request body of ChangePasswordSerializer: old_password may be left out
PasswordInputs ==
    {d \in [has_old : BOOLEAN, old : Passwords, new : Passwords,
            confirm : Passwords] :
        ~d.has_old => d.old = InitialPassword}

\* ------------------------------------------------------------------------
\* Account requests (apps/users/api/views.py, application/services.py,
\* api/serializers.py).  Each action is one whole request.
\* ------------------------------------------------------------------------

\* UserService.update_user and delete_user: the self-protection checks
NoSelfDeactivation(actor, target, d) == FALSE
SelfDeactivation(actor, target, d) ==
    target = actor /\ d.has_active /\ ~d.is_active

NoSelfDeletion(actor, target) == FALSE
SelfDeletion(actor, target) == target = actor

SelfDemotion(actor, target, d) ==
    /\ target = actor
    /\ d.has_groups
    /\ Administradores \in groups[target]
    /\ Administradores \notin d.group_ids

\* PUT/PATCH /api/users/{id}/ : UserViewSet.update
ViewUpdate(actor, target, d) ==
    /\ actor \in exists \cap active
    /\ LET fresh == EffectivePerms(actor)
           allowed == HasPermission(cache, actor, superuser, fresh, "update")
           c1 == HasPermissionCache(cache, actor, superuser, fresh, "update")
           found == target \in exists
                      /\ InQueryset(c1, actor, superuser, fresh, target)
           c2 == QuerysetCache(c1, actor, superuser, fresh)
           svcOk == has_permission(c2, actor, fresh, ChangeUser)
           c3 == ResolveCache(c2, actor, fresh)
           dupEmp == EmployeeIdTaken(d.employee_id, target)
           badGroups == d.has_groups /\ NoSuchGroup \in d.group_ids
           act1 == IF ~d.has_active THEN active
                   ELSE IF d.is_active THEN active \cup {target}
                   ELSE active \ {target}
           emp1 == IF d.employee_id # NoEmployeeId
                   THEN [employeeId EXCEPT ![target] = d.employee_id]
                   ELSE employeeId
           grp1 == IF d.has_groups /\ ~badGroups
                   THEN [groups EXCEPT ![target] = d.group_ids]
                   ELSE groups
           c4 == IF d.has_groups
                 THEN invalidate_user_permissions_cache(c3, target)
                 ELSE c3
           freshT == GetAllPermissions(act1, superuser, grp1, directPerms,
                                       groupPerms, target)
       IN  IF ~allowed
           THEN /\ cache' = c1
                /\ last' = Result("update", actor, target, 403, "gate")
                /\ UNCHANGED <<active, groups, employeeId>>
           ELSE IF ~found
           THEN /\ cache' = c2
                /\ last' = Result("update", actor, target, 404, "not_found")
                /\ UNCHANGED <<active, groups, employeeId>>
           ELSE IF ~svcOk
           THEN /\ cache' = c3
                /\ last' = Result("update", actor, target, 403,
                                  "permission_denied")
                /\ UNCHANGED <<active, groups, employeeId>>
           ELSE IF SelfDeactivation(actor, target, d)
           THEN /\ cache' = c3
                /\ last' = Result("update", actor, target, 403,
                                  "self_deactivation")
                /\ UNCHANGED <<active, groups, employeeId>>
           ELSE IF SelfDemotion(actor, target, d)
           THEN /\ cache' = c3
                /\ last' = Result("update", actor, target, 403,
                                  "self_demotion")
                /\ UNCHANGED <<active, groups, employeeId>>
           ELSE IF dupEmp
           THEN \* instance.save() is committed, profile.save() raises
                /\ active' = act1
                /\ cache' = c3
                /\ last' = Result("update", actor, target, 500,
                                  "integrity_error")
                /\ UNCHANGED <<groups, employeeId>>
           ELSE IF badGroups
           THEN \* instance.save() and profile.save() are committed,
                \* groups.set() raises
                /\ active' = act1
                /\ employeeId' = emp1
                /\ cache' = c3
                /\ last' = Result("update", actor, target, 500,
                                  "integrity_error")
                /\ UNCHANGED groups
           ELSE /\ active' = act1
                /\ employeeId' = emp1
                /\ groups' = grp1
                /\ cache' = ResolveCache(c4, target, freshT)
                /\ last' = [Result("update", actor, target, 200, "")
                               EXCEPT !.changed = IF d.has_groups
                                                  THEN {"groups"} ELSE {}]
    /\ UNCHANGED <<exists, superuser, directPerms, groupPerms, deletedAt,
                   password, profiles, untracked>>
    /\ UNCHANGED <<tokVars, raceVars>>

\* DELETE /api/users/{id}/ : UserViewSet.destroy and UserService.delete_user
ViewDestroy(actor, target) ==
    /\ actor \in exists \cap active
    /\ LET fresh == EffectivePerms(actor)
           allowed == HasPermission(cache, actor, superuser, fresh, "destroy")
           c1 == HasPermissionCache(cache, actor, superuser, fresh, "destroy")
           found == target \in exists
                      /\ InQueryset(c1, actor, superuser, fresh, target)
           c2 == QuerysetCache(c1, actor, superuser, fresh)
           svcOk == has_permission(c2, actor, fresh, DeleteUser)
           c3 == ResolveCache(c2, actor, fresh)
       IN  IF ~allowed
           THEN /\ cache' = c1
                /\ last' = Result("destroy", actor, target, 403, "gate")
                /\ UNCHANGED <<active, deletedAt>>
           ELSE IF ~found
           THEN /\ cache' = c2
                /\ last' = Result("destroy", actor, target, 404, "not_found")
                /\ UNCHANGED <<active, deletedAt>>
           ELSE IF ~svcOk
           THEN /\ cache' = c3
                /\ last' = Result("destroy", actor, target, 403,
                                  "permission_denied")
                /\ UNCHANGED <<active, deletedAt>>
           ELSE IF SelfDeletion(actor, target)
           THEN /\ cache' = c3
                /\ last' = Result("destroy", actor, target, 403,
                                  "self_deletion")
                /\ UNCHANGED <<active, deletedAt>>
           ELSE /\ active' = active \ {target}
                /\ deletedAt' = IF profiles[target] > 0
                                 THEN soft_delete(deletedAt, target)
                                 ELSE deletedAt
                /\ cache' = invalidate_user_permissions_cache(c3, target)
                /\ last' = Result("destroy", actor, target, 204, "")
    /\ UNCHANGED <<exists, superuser, groups, directPerms, groupPerms,
                   password>>
    /\ UNCHANGED <<tokVars, raceVars, profVars>>

\* POST /api/users/ : UserViewSet.create, UserService.create_user and
\* UserCreateSerializer.create
ViewCreate(actor, d) ==
    /\ actor \in exists \cap active
    /\ Cardinality(exists) < MaxUsers
    /\ LET fresh == EffectivePerms(actor)
           allowed == HasPermission(cache, actor, superuser, fresh, "create")
           c1 == HasPermissionCache(cache, actor, superuser, fresh, "create")
           svcOk == has_permission(c1, actor, fresh, AddUser)
           c3 == ResolveCache(c1, actor, fresh)
           new == CHOOSE u \in UserIds \ exists :
                      \A v \in UserIds \ exists : u <= v
           dupEmp == EmployeeIdTaken(d.employee_id, new)
           badGroups == NoSuchGroup \in d.group_ids
           act1 == IF d.is_active THEN active \cup {new} ELSE active
           prof1 == [profiles EXCEPT ![new] = create_user_profile(@, TRUE)]
           emp1 == IF d.employee_id # NoEmployeeId
                   THEN [employeeId EXCEPT ![new] = d.employee_id]
                   ELSE employeeId
           grp1 == [groups EXCEPT ![new] = d.group_ids]
           freshT == GetAllPermissions(act1, superuser, grp1, directPerms,
                                       groupPerms, new)
       IN  IF ~allowed
           THEN /\ cache' = c1
                /\ last' = Result("create", actor, Anon, 403, "gate")
                /\ UNCHANGED <<exists, active, groups, profiles, employeeId>>
           ELSE IF ~svcOk
           THEN /\ cache' = c3
                /\ last' = Result("create", actor, Anon, 403,
                                  "permission_denied")
                /\ UNCHANGED <<exists, active, groups, profiles, employeeId>>
           ELSE IF QuotaReached(Cardinality(active) + untracked)
           THEN /\ cache' = c3
                /\ last' = Result("create", actor, Anon, 400, "quota")
                /\ UNCHANGED <<exists, active, groups, profiles, employeeId>>
           ELSE IF dupEmp
           THEN \* the User row and its profile are committed,
                \* profile.save() raises
                /\ exists' = exists \cup {new}
                /\ active' = act1
                /\ profiles' = prof1
                /\ cache' = c3
                /\ last' = Result("create", actor, new, 500,
                                  "integrity_error")
                /\ UNCHANGED <<groups, employeeId>>
           ELSE IF badGroups
           THEN \* the User row and its profile are committed,
                \* groups.set() raises
                /\ exists' = exists \cup {new}
                /\ active' = act1
                /\ profiles' = prof1
                /\ employeeId' = emp1
                /\ cache' = c3
                /\ last' = Result("create", actor, new, 500,
                                  "integrity_error")
                /\ UNCHANGED groups
           ELSE /\ exists' = exists \cup {new}
                /\ active' = act1
                /\ profiles' = prof1
                /\ employeeId' = emp1
                /\ groups' = grp1
                /\ cache' = ResolveCache(c3, new, freshT)
                /\ last' = Result("create", actor, new, 201, "")
    /\ UNCHANGED <<superuser, directPerms, groupPerms, deletedAt, password,
                   untracked>>
    /\ UNCHANGED <<tokVars, raceVars>>

\* UserPermissionService.assign_role (service call, no view in front of it)
assign_role(actor, target, g) ==
    /\ actor \in exists
    /\ target \in exists
    /\ LET fresh == EffectivePerms(actor)
           svcOk == has_permission(cache, actor, fresh, ChangeUser)
           c1 == ResolveCache(cache, actor, fresh)
       IN  IF ~svcOk
           THEN /\ cache' = c1
                /\ last' = Result("assign_role", actor, target, 403,
                                  "permission_denied")
                /\ UNCHANGED groups
           ELSE IF g \notin Groups
           THEN /\ cache' = c1
                /\ last' = Result("assign_role", actor, target, 404,
                                  "group_not_found")
                /\ UNCHANGED groups
           ELSE /\ groups' = [groups EXCEPT ![target] = @ \cup {g}]
                /\ cache' = invalidate_user_permissions_cache(c1, target)
                /\ last' = [Result("assign_role", actor, target, 200, "")
                               EXCEPT !.changed = {"groups"}]
    /\ UNCHANGED <<exists, active, superuser, directPerms, groupPerms,
                   deletedAt, password>>
    /\ UNCHANGED <<tokVars, raceVars, profVars>>

\* UserPermissionService.remove_role (service call, no view in front of it)
remove_role(actor, target, g) ==
    /\ actor \in exists
    /\ target \in exists
    /\ LET fresh == EffectivePerms(actor)
           svcOk == has_permission(cache, actor, fresh, ChangeUser)
           c1 == ResolveCache(cache, actor, fresh)
       IN  IF ~svcOk
           THEN /\ cache' = c1
                /\ last' = Result("remove_role", actor, target, 403,
                                  "permission_denied")
                /\ UNCHANGED groups
           ELSE IF g \notin Groups
           THEN /\ cache' = c1
                /\ last' = Result("remove_role", actor, target, 404,
                                  "group_not_found")
                /\ UNCHANGED groups
           ELSE /\ groups' = [groups EXCEPT ![target] = @ \ {g}]
                /\ cache' = invalidate_user_permissions_cache(c1, target)
                /\ last' = [Result("remove_role", actor, target, 200, "")
                               EXCEPT !.changed = {"groups"}]
    /\ UNCHANGED <<exists, active, superuser, directPerms, groupPerms,
                   deletedAt, password>>
    /\ UNCHANGED <<tokVars, raceVars, profVars>>

\* seed_roles: Command.handle; every role gets the permissions of
\* roles_config again.  last.changed names the roles whose set changed.
seed_roles ==
    /\ groupPerms' = RolesConfig
    /\ last' = [Result("seed_roles", Anon, Anon, 200, "")
                   EXCEPT !.changed = {g \in Groups :
                                          groupPerms[g] # RolesConfig[g]}]
    /\ UNCHANGED <<exists, active, superuser, groups, directPerms,
                   deletedAt, password, cache>>
    /\ UNCHANGED <<tokVars, raceVars, profVars>>

\* createsuperuser_auto --username <another name>: one more active account;
\* beyond UserIds only the number of such accounts is kept
createsuperuser_auto ==
    /\ untracked < MaxUntracked
    /\ untracked' = untracked + 1
    /\ last' = Result("createsuperuser_auto", Anon, Anon, 0, "")
    /\ UNCHANGED <<exists, active, superuser, groups, directPerms,
                   groupPerms, deletedAt, password, cache, profiles,
                   employeeId>>
    /\ UNCHANGED <<tokVars, raceVars>>

\* profile.restore() on the profile of u
ProfileRestore(u) ==
    /\ u \in exists
    /\ profiles[u] > 0
    /\ u \in deletedAt
    /\ deletedAt' = restore(deletedAt, u)
    /\ last' = Result("restore", Anon, u, 0, "")
    /\ UNCHANGED <<exists, active, superuser, groups, directPerms,
                   groupPerms, password, cache>>
    /\ UNCHANGED <<tokVars, raceVars, profVars>>

\* profile.delete() on the profile of u (SoftDeleteModel.delete called
\* directly, as the model tests do)
ProfileDelete(u) ==
    /\ u \in exists
    /\ profiles[u] > 0
    /\ deletedAt' = soft_delete(deletedAt, u)
    /\ last' = Result("delete", Anon, u, 0, "")
    /\ UNCHANGED <<exists, active, superuser, groups, directPerms,
                   groupPerms, password, cache>>
    /\ UNCHANGED <<tokVars, raceVars, profVars>>

\* profile.hard_delete() on the profile of u: the row goes, and with it its
\* deleted_at and its employee_id
ProfileHardDelete(u) ==
    /\ u \in exists
    /\ profiles[u] > 0
    /\ profiles' = [profiles EXCEPT ![u] = hard_delete(@)]
    /\ deletedAt' = deletedAt \ {u}
    /\ employeeId' = [employeeId EXCEPT ![u] = NoEmployeeId]
    /\ last' = Result("hard_delete", Anon, u, 0, "")
    /\ UNCHANGED <<exists, active, superuser, groups, directPerms,
                   groupPerms, password, cache, untracked>>
    /\ UNCHANGED <<tokVars, raceVars>>

\* ChangePasswordSerializer: run_validation of the body, the fields first
\* (old_password is required and validate_old_password checks it against
\* request.user), then validate() compares the two new passwords
ChangePasswordErrors(actor, d) ==
    IF ~d.has_old THEN "old_required"
    ELSE IF ~check_password(password[actor], d.old) THEN "wrong_old_password"
    ELSE IF d.new # d.confirm THEN "confirm_mismatch"
    ELSE ""

\* POST /api/users/{id}/change_password/ : UserViewSet.change_password
ViewChangePassword(actor, target, d) ==
    /\ actor \in exists \cap active
    /\ LET fresh == EffectivePerms(actor)
           allowed == HasPermission(cache, actor, superuser, fresh,
                                    "change_password")
           c1 == HasPermissionCache(cache, actor, superuser, fresh,
                                    "change_password")
           found == target \in exists
                      /\ InQueryset(c1, actor, superuser, fresh, target)
           c2 == QuerysetCache(c1, actor, superuser, fresh)
           invalid == ChangePasswordErrors(actor, d)
           is_own_password == target = actor
           is_admin == actor \in superuser
                         \/ has_permission(c2, actor, fresh, ChangeUser)
           \* has_permission is reached only for an actor that is no
           \* superuser
           c3 == IF actor \in superuser THEN c2
                 ELSE ResolveCache(c2, actor, fresh)
       IN  IF ~allowed
           THEN /\ cache' = c1
                /\ last' = Result("change_password", actor, target, 403,
                                  "gate")
                /\ UNCHANGED password
           ELSE IF ~found
           THEN /\ cache' = c2
                /\ last' = Result("change_password", actor, target, 404,
                                  "not_found")
                /\ UNCHANGED password
           ELSE IF invalid # ""
           THEN /\ cache' = c2
                /\ last' = Result("change_password", actor, target, 400,
                                  invalid)
                /\ UNCHANGED password
           ELSE IF ~is_own_password /\ ~is_admin
           THEN /\ cache' = c3
                /\ last' = Result("change_password", actor, target, 403,
                                  "permission_denied")
                /\ UNCHANGED password
           ELSE /\ password' = [password EXCEPT
                                   ![target] = make_password(d.new)]
                /\ cache' = c3
                /\ last' = Result("change_password", actor, target, 200, "")
    /\ UNCHANGED <<exists, active, superuser, groups, directPerms,
                   groupPerms, deletedAt>>
    /\ UNCHANGED <<tokVars, raceVars, profVars>>

\* PasswordService.change_password(user, old_password, new_password)
\* (service call, no view in front of it)
change_password(u, old, new) ==
    /\ u \in exists
    /\ IF ~check_password(password[u], old)
       THEN /\ last' = Result("PasswordService.change_password", u, u, 400,
                              "wrong_old_password")
            /\ UNCHANGED password
       ELSE /\ password' = [password EXCEPT ![u] = make_password(new)]
            /\ last' = Result("PasswordService.change_password", u, u, 200,
                              "")
    /\ UNCHANGED <<exists, active, superuser, groups, directPerms,
                   groupPerms, deletedAt, cache>>
    /\ UNCHANGED <<tokVars, raceVars, profVars>>

\* get_user_permissions_cached(user) as the serializers call it
\* (UserSerializer.get_permissions in list / retrieve / me)
Resolve(u) ==
    /\ u \in exists
    /\ cache' = ResolveCache(cache, u, EffectivePerms(u))
    /\ last' = [Result("resolve", Anon, u, 200, "")
                   EXCEPT !.value = ResolveValue(cache, u, EffectivePerms(u))]
    /\ UNCHANGED <<exists, active, superuser, groups, directPerms,
                   groupPerms, deletedAt, password>>
    /\ UNCHANGED <<tokVars, raceVars, profVars>>

\* get_user_permissions_cached(request.user) of a request without
\* credentials: AnonymousUser.is_authenticated is False
ResolveAnonymous ==
    /\ cache' = ResolveCache(cache, Anon, {})
    /\ last' = [Result("resolve", Anon, Anon, 200, "")
                   EXCEPT !.value = ResolveValue(cache, Anon, {})]
    /\ UNCHANGED <<exists, active, superuser, groups, directPerms,
                   groupPerms, deletedAt, password>>
    /\ UNCHANGED <<tokVars, raceVars, profVars>>

\* UserPermissionCache.get_or_compute(user_id): a hit returns the entry;
\* on a miss User.objects.get(id=user_id) either yields the user, whose
\* permissions are computed, stored and returned, or raises DoesNotExist,
\* which returns the empty set and stores nothing
get_or_compute(id) ==
    /\ IF CacheHit(cache, id) \/ id \in exists
       THEN /\ cache' = ResolveCache(cache, id, EffectivePerms(id))
            /\ last' = [Result("resolve", Anon, id, 200, "")
                           EXCEPT !.value =
                               ResolveValue(cache, id, EffectivePerms(id))]
       ELSE /\ cache' = cache
            /\ last' = Result("resolve", Anon, id, 200, "")
    /\ UNCHANGED <<exists, active, superuser, groups, directPerms,
                   groupPerms, deletedAt, password>>
    /\ UNCHANGED <<tokVars, raceVars, profVars>>

\* UserPermissionCache.invalidate_group(group_id) (service call);
\* last.changed names the group
InvalidateGroup(g) ==
    /\ cache' = invalidate_group(cache, exists, groups, g)
    /\ last' = [Result("invalidate_group", Anon, Anon, 0, "")
                   EXCEPT !.changed = {g}]
    /\ UNCHANGED <<exists, active, superuser, groups, directPerms,
                   groupPerms, deletedAt, password>>
    /\ UNCHANGED <<tokVars, raceVars, profVars>>

\* invalidate_user_permissions_cache(user_id) / UserPermissionCache.delete
\* (service call), whether or not the id has an entry or a row
Invalidate(id) ==
    /\ cache' = invalidate_user_permissions_cache(cache, id)
    /\ last' = Result("invalidate", Anon, id, 0, "")
    /\ UNCHANGED <<exists, active, superuser, groups, directPerms,
                   groupPerms, deletedAt, password>>
    /\ UNCHANGED <<tokVars, raceVars, profVars>>

\* the entry of u reaches its timeout (3600 s) and the store drops it
CacheExpire(u) ==
    /\ CacheHit(cache, u)
    /\ cache' = [k \in DOMAIN cache \ {u} |-> cache[k]]
    /\ last' = Result("expire", Anon, u, 0, "")
    /\ UNCHANGED <<exists, active, superuser, groups, directPerms,
                   groupPerms, deletedAt, password>>
    /\ UNCHANGED <<tokVars, raceVars, profVars>>

\* HasPermission.has_permission evaluated for request.user = u on a view
\* whose action is a
CheckPermission(u, a) ==
    /\ u \in exists \cup {Anon}
    /\ LET fresh == IF u = Anon THEN {} ELSE EffectivePerms(u)
       IN  /\ cache' = HasPermissionCache(cache, u, superuser, fresh, a)
           /\ last' = [Result("gate", u, Anon, 0, "")
                          EXCEPT !.action = a,
                                 !.allowed = HasPermission(cache, u, superuser,
                                                           fresh, a)]
    /\ UNCHANGED <<exists, active, superuser, groups, directPerms,
                   groupPerms, deletedAt, password>>
    /\ UNCHANGED <<tokVars, raceVars, profVars>>

\* ------------------------------------------------------------------------
\* Token endpoints (apps/auth/api/views.py, api/serializers.py) on top of
\* rest_framework_simplejwt.  A token is the record of its claims; a string
\* that no server key signed is Garbage.  The request rates of the model
\* stay below the throttles of the views.
\* ------------------------------------------------------------------------
NoToken == [jti |-> 0, uid |-> Anon, exp |-> 0]
Garbage == [jti |-> 0, uid |-> Anon, exp |-> 1]
\* a username without a row
NoSuchUser == MaxUsers + 1

NoResp ==
    [op |-> "init", presented |-> NoToken, uid |-> Anon, status |-> 0,
     code |-> "", detail |-> "", access |-> NoToken, refresh |-> NoToken,
     hasRefresh |-> FALSE, exp |-> 0]

Response(op, presented, status, code, detail) ==
    [NoResp EXCEPT !.op = op, !.presented = presented, !.status = status,
                   !.code = code, !.detail = detail]

\* RefreshToken(token): Token.__init__ decodes (signature and exp, no
\* leeway: expired as soon as exp <= now), then BlacklistMixin.verify
\* looks the jti up when the blacklist app is installed.
RefreshIgnoringBlacklist(t, issued, bl, time) ==
    IF t \notin issued \/ t.exp <= time THEN "invalid_or_expired" ELSE "ok"
RefreshTokenCheck(t, issued, bl, time) ==
    IF t \notin issued \/ t.exp <= time THEN "invalid_or_expired"
    ELSE IF BLACKLIST_INSTALLED /\ t.jti \in bl THEN "blacklisted"
    ELSE "ok"

\* AccessToken(token): signature and exp only
AccessTokenCheckLeeway(a, issued, time) ==
    IF a \notin issued \/ a.exp < time THEN "invalid_or_expired" ELSE "ok"
AccessTokenCheck(a, issued, time) ==
    IF a \notin issued \/ a.exp <= time THEN "invalid_or_expired" ELSE "ok"

\* refresh.access_token: a new access token for the same user, from now.
\* Its own jti is read by nothing; the record keeps in that place the jti of
\* the refresh token it was derived from, which tells the pair it belongs to.
AccessFor(t, time) ==
    [jti |-> t.jti, uid |-> t.uid, exp |-> time + ACCESS_TOKEN_LIFETIME]

\* django.contrib.auth.authenticate with ModelBackend: the user, or None
\* (Anon) for an unknown username, a wrong password or an inactive user
AuthenticateAnyPassword(u, raw) ==
    IF u \in exists /\ u \in active THEN u ELSE Anon
authenticate(u, raw) ==
    IF u \in exists /\ check_password(password[u], raw) /\ u \in active
    THEN u
    ELSE Anon

\* JWTAuthentication + IsAuthenticated: the bearer token is a valid access
\* token of an existing, active user
IsAuthenticated(a) ==
    /\ AccessTokenCheck(a, accessIssued, now) = "ok"
    /\ a.uid \in exists \cap active

\* POST /api/auth/login/ : LoginView.post and LoginSerializer.validate
Login(u, raw) ==
    /\ Cardinality(refreshIssued) < MaxLogins
    /\ LET user == authenticate(u, raw)
           refresh == [jti |-> Cardinality(refreshIssued) + 1, uid |-> user,
                       exp |-> now + REFRESH_TOKEN_LIFETIME]
           access == AccessFor(refresh, now)
       IN  IF user = Anon
           THEN /\ resp' = Response("login", NoToken, 400,
                                    "invalid_credentials",
                                    "Credenciales invalidas")
                /\ UNCHANGED <<refreshIssued, accessIssued, cache>>
           ELSE IF user \notin active
           THEN /\ resp' = Response("login", NoToken, 400, "inactive_user",
                                    "Usuario inactivo")
                /\ UNCHANGED <<refreshIssued, accessIssued, cache>>
           ELSE /\ Cardinality(accessIssued \cup {access}) <= MaxAccess
                /\ refreshIssued' = refreshIssued \cup {refresh}
                /\ accessIssued' = accessIssued \cup {access}
                \* UserSerializer(user).data resolves the permissions
                /\ cache' = ResolveCache(cache, user, EffectivePerms(user))
                /\ resp' = [Response("login", NoToken, 200, "", "")
                               EXCEPT !.uid = user, !.access = access,
                                      !.refresh = refresh,
                                      !.hasRefresh = TRUE]
    /\ UNCHANGED <<exists, active, superuser, groups, directPerms,
                   groupPerms, deletedAt, password, last>>
    /\ UNCHANGED <<now, blacklist, raceVars, profVars>>

\* POST /api/auth/refresh/ : TokenRefreshView.post and
\* TokenRefreshSerializer.validate
Refresh(t) ==
    /\ LET outcome == RefreshTokenCheck(t, refreshIssued, blacklist, now)
           access == AccessFor(t, now)
       IN  IF outcome # "ok"
           THEN /\ resp' = Response("refresh", t, 400, "invalid_token",
                                    outcome)
                /\ UNCHANGED accessIssued
           ELSE /\ Cardinality(accessIssued \cup {access}) <= MaxAccess
                /\ accessIssued' = accessIssued \cup {access}
                /\ resp' = [Response("refresh", t, 200, "", "")
                               EXCEPT !.uid = t.uid, !.access = access]
    /\ UNCHANGED <<refreshIssued, blacklist, now>>
    /\ UNCHANGED <<acctVars, raceVars>>

\* token.blacklist(): BlacklistMixin defines the method only when the
\* blacklist app is installed; without it the call raises AttributeError
BlacklistCallSwallowed(installed) == "ok"
BlacklistCall(installed) == IF installed THEN "ok" ELSE "AttributeError"

\* LogoutSerializer.validate under a deployment with (installed) or without
\* the blacklist app; a is the bearer token of the request, t the refresh
\* token in its body.  Without the app RefreshToken(t) checks signature and
\* exp only.
LogoutWith(installed, a, t) ==
    /\ LET outcome ==
               IF installed
               THEN RefreshTokenCheck(t, refreshIssued, blacklist, now)
               ELSE IF t \notin refreshIssued \/ t.exp <= now
                    THEN "invalid_or_expired"
                    ELSE "ok"
       IN  IF ~IsAuthenticated(a)
           THEN /\ resp' = Response("logout", t, 401, "not_authenticated", "")
                /\ UNCHANGED blacklist
           ELSE IF outcome # "ok"
           THEN /\ resp' = Response("logout", t, 400, "invalid_token",
                                    outcome)
                /\ UNCHANGED blacklist
           ELSE IF BlacklistCall(installed) = "AttributeError"
           THEN /\ resp' = Response("logout", t, 400, "blacklist_not_enabled",
                                    "Blacklist no configurado")
                /\ UNCHANGED blacklist
           ELSE /\ blacklist' = IF installed THEN blacklist \cup {t.jti}
                                 ELSE blacklist
                /\ resp' = Response("logout", t, 200, "", "Logout exitoso")
    /\ UNCHANGED <<refreshIssued, accessIssued, now>>
    /\ UNCHANGED <<acctVars, raceVars>>

\* POST /api/auth/logout/ : LogoutView.post and LogoutSerializer.validate
\* with the INSTALLED_APPS of base.py
Logout(a, t) == LogoutWith(BLACKLIST_INSTALLED, a, t)

\* the same request where rest_framework_simplejwt.token_blacklist is not
\* in INSTALLED_APPS
LogoutNoBlacklist(a, t) == LogoutWith(FALSE, a, t)

\* POST /api/auth/verify/ : VerifyTokenView.post and
\* VerifyTokenSerializer.validate
VerifyConsultingBlacklist(a) ==
    /\ LET outcome == IF a.jti \in blacklist THEN "blacklisted"
                      ELSE AccessTokenCheck(a, accessIssued, now)
       IN  IF outcome # "ok"
           THEN resp' = Response("verify", a, 400, "invalid_token", outcome)
           ELSE resp' = [Response("verify", a, 200, "", "")
                            EXCEPT !.uid = a.uid, !.exp = a.exp]
    /\ UNCHANGED <<refreshIssued, accessIssued, blacklist, now>>
    /\ UNCHANGED <<acctVars, raceVars>>
Verify(a) ==
    /\ LET outcome == AccessTokenCheck(a, accessIssued, now)
       IN  IF outcome # "ok"
           THEN resp' = Response("verify", a, 400, "invalid_token", outcome)
           ELSE resp' = [Response("verify", a, 200, "", "")
                            EXCEPT !.uid = a.uid, !.exp = a.exp]
    /\ UNCHANGED <<refreshIssued, accessIssued, blacklist, now>>
    /\ UNCHANGED <<acctVars, raceVars>>

\* a minute passes; the response of the last request is no longer current
Tick ==
    /\ now < MaxTime
    /\ now' = now + 1
    /\ resp' = NoResp
    /\ UNCHANGED <<refreshIssued, accessIssued, blacklist>>
    /\ UNCHANGED <<acctVars, raceVars>>

\* ------------------------------------------------------------------------
\* Two requests in flight: a role change or a delete by the admin account
\* (assign_role / remove_role: the groups row is committed, then the cache
\* key is deleted) and get_user_permissions_cached (cache.get, then
\* get_all_permissions, then cache.set), one statement at a time.
\* ------------------------------------------------------------------------
NoCall == [op |-> "none", target |-> Anon, g |-> NoSuchGroup]
NoRead == [target |-> Anon, perms |-> {}, late |-> FALSE]

\* the call passes require_permission and commits groups.add / groups.remove
MutCommit(op, target, g) ==
    /\ mpc = "idle"
    /\ target \in exists
    /\ has_permission(cache, AdminId, EffectivePerms(AdminId), ChangeUser)
    /\ cache' = ResolveCache(cache, AdminId, EffectivePerms(AdminId))
    /\ groups' = [groups EXCEPT ![target] =
                     IF op = "assign_role" THEN @ \cup {g} ELSE @ \ {g}]
    /\ mcall' = [op |-> op, target |-> target, g |-> g]
    /\ mpc' = "committed"
    /\ UNCHANGED <<exists, active, superuser, directPerms, groupPerms,
                   deletedAt, password, last>>
    /\ UNCHANGED <<tokVars, profVars, rpc, rcall, calls, wdb, creating>>

\* invalidate_user_permissions_cache(user_instance.id), and the call returns
MutInvalidate ==
    /\ mpc = "committed"
    /\ cache' = invalidate_user_permissions_cache(cache, mcall.target)
    /\ last' = [Result(mcall.op, AdminId, mcall.target, 200, "")
                   EXCEPT !.changed = {"groups"}]
    /\ mpc' = "returned"
    /\ UNCHANGED <<exists, active, superuser, groups, directPerms,
                   groupPerms, deletedAt, password>>
    /\ UNCHANGED <<tokVars, profVars, mcall, rpc, rcall, calls, wdb, creating>>

\* UserService.delete_user inside transaction.atomic: the call passes
\* require_permission and the self-deletion check and writes is_active and
\* deleted_at; other connections do not see the rows before the commit
DelWrite(target) ==
    /\ mpc = "idle"
    /\ target \in exists
    /\ has_permission(cache, AdminId, EffectivePerms(AdminId), DeleteUser)
    /\ ~SelfDeletion(AdminId, target)
    /\ cache' = ResolveCache(cache, AdminId, EffectivePerms(AdminId))
    /\ mcall' = [op |-> "delete_user", target |-> target, g |-> NoSuchGroup]
    /\ mpc' = "written"
    /\ UNCHANGED <<exists, active, superuser, groups, directPerms,
                   groupPerms, deletedAt, password, last>>
    /\ UNCHANGED <<tokVars, profVars, rpc, rcall, calls, wdb, creating>>

\* invalidate_user_permissions_cache(user_instance.id), still inside the
\* atomic block
DelInvalidate ==
    /\ mpc = "written"
    /\ cache' = invalidate_user_permissions_cache(cache, mcall.target)
    /\ mpc' = "invalidated"
    /\ UNCHANGED <<exists, active, superuser, groups, directPerms,
                   groupPerms, deletedAt, password, last>>
    /\ UNCHANGED <<tokVars, profVars, mcall, rpc, rcall, calls, wdb, creating>>

\* the atomic block ends: commit, and the call returns
DelCommit ==
    /\ mpc = "invalidated"
    /\ active' = active \ {mcall.target}
    /\ deletedAt' = IF profiles[mcall.target] > 0
                     THEN soft_delete(deletedAt, mcall.target)
                     ELSE deletedAt
    /\ last' = Result("destroy", AdminId, mcall.target, 204, "")
    /\ mpc' = "returned"
    /\ UNCHANGED <<exists, superuser, groups, directPerms, groupPerms,
                   password, cache>>
    /\ UNCHANGED <<tokVars, profVars, mcall, rpc, rcall, calls, wdb, creating>>

\* the caller has its answer; the next role change may start
MutDone ==
    /\ mpc = "returned"
    /\ mpc' = "idle"
    /\ mcall' = NoCall
    /\ UNCHANGED <<acctVars, tokVars, rpc, rcall, calls, wdb, creating>>

\* cached_perms = cache.get(cache_key): a hit returns at once
ResGet(u) ==
    /\ rpc = "idle"
    /\ u \in exists
    /\ IF CacheHit(cache, u)
       THEN UNCHANGED <<rpc, rcall>>
       ELSE /\ rpc' = "miss"
            \* late: the call starts after a delete_user in flight has
            \* deleted the cache key of u
            /\ rcall' = [target |-> u, perms |-> {},
                         late |-> (mpc = "invalidated" /\ mcall.target = u)]
    /\ UNCHANGED <<acctVars, tokVars, mpc, mcall, calls, wdb, creating>>

\* perms = user.get_all_permissions()
ResCompute ==
    /\ rpc = "miss"
    /\ rcall' = [rcall EXCEPT !.perms = EffectivePerms(rcall.target)]
    /\ rpc' = "computed"
    /\ UNCHANGED <<acctVars, tokVars, mpc, mcall, calls, wdb, creating>>

\* cache.set(cache_key, perms, timeout=3600); return perms
ResSet ==
    /\ rpc = "computed"
    /\ cache' = CacheSet(cache, rcall.target, rcall.perms)
    /\ rpc' = "idle"
    /\ rcall' = NoRead
    /\ UNCHANGED <<exists, active, superuser, groups, directPerms,
                   groupPerms, deletedAt, password, last>>
    /\ UNCHANGED <<tokVars, profVars, mpc, mcall, calls, wdb, creating>>

\* ------------------------------------------------------------------------
\* Several get_user_permissions_cached calls in flight, one statement of
\* one call at a time
\* ------------------------------------------------------------------------
CallIds == 1..MaxCalls
NoCalls == [i \in CallIds |-> [pc |-> "idle", target |-> Anon, perms |-> {}]]

\* is a call for u between its cache.get and its cache.set
InFlight(u) == \E i \in CallIds : calls[i].pc # "idle" /\ calls[i].target = u

\* cached_perms = cache.get(cache_key): a hit returns at once
CallGet(i, u) ==
    /\ calls[i].pc = "idle"
    /\ u \in exists
    /\ IF CacheHit(cache, u)
       THEN UNCHANGED calls
       ELSE calls' = [calls EXCEPT ![i] = [pc |-> "miss", target |-> u,
                                           perms |-> {}]]
    /\ last' = Result("get", Anon, u, 0, "")
    /\ UNCHANGED <<exists, active, superuser, groups, directPerms,
                   groupPerms, deletedAt, password, cache>>
    /\ UNCHANGED <<tokVars, profVars, mpc, mcall, rpc, rcall, wdb, creating>>

\* perms = user.get_all_permissions()
CallCompute(i) ==
    /\ calls[i].pc = "miss"
    /\ calls' = [calls EXCEPT ![i].pc = "computed",
                              ![i].perms = EffectivePerms(calls[i].target)]
    /\ UNCHANGED <<acctVars, tokVars, mpc, mcall, rpc, rcall, wdb, creating>>

\* cache.set(cache_key, perms, timeout=3600); return perms
CallSet(i) ==
    /\ calls[i].pc = "computed"
    /\ cache' = CacheSet(cache, calls[i].target, calls[i].perms)
    /\ calls' = [calls EXCEPT ![i] = NoCalls[i]]
    /\ last' = Result("resolve", Anon, calls[i].target, 200, "")
    /\ UNCHANGED <<exists, active, superuser, groups, directPerms,
                   groupPerms, deletedAt, password>>
    /\ UNCHANGED <<tokVars, profVars, mpc, mcall, rpc, rcall, wdb, creating>>

\* ------------------------------------------------------------------------
\* wait_for_db (apps/core/management/commands/wait_for_db.py): Command.handle
\* one statement at a time.  attempt is the loop variable, failures the
\* attempts that raised OperationalError, slept the seconds spent in
\* time.sleep, err the attempt whose exception is held in e.
\* ------------------------------------------------------------------------
WaitStart ==
    [pc |-> "connect", attempt |-> 1, failures |-> 0, slept |-> 0,
     err |-> 0, kind |-> "none"]

\* what db_conn.cursor() may do: return, raise OperationalError, or raise
\* something the except clause does not catch
ConnectOutcomes == {"ok", "OperationalError", "other"}

\* if attempt == max_retries
LastAttemptNever(a) == FALSE
LastAttempt(a) == a = max_retries

\* try: db_conn = connections['default']; db_conn.cursor(); ... return
WaitConnect(outcome) ==
    /\ wdb.pc = "connect"
    /\ wdb' = CASE outcome = "ok" -> [wdb EXCEPT !.pc = "returned"]
                [] outcome = "OperationalError" ->
                     [wdb EXCEPT !.pc = "except", !.failures = @ + 1,
                                 !.err = wdb.attempt,
                                 !.kind = "OperationalError"]
                [] OTHER ->
                     [wdb EXCEPT !.pc = "raised", !.err = wdb.attempt,
                                 !.kind = "other"]
    /\ UNCHANGED <<acctVars, tokVars, mpc, mcall, rpc, rcall, calls,
                   creating>>

\* except OperationalError as e: the last attempt raises e again
WaitExcept ==
    /\ wdb.pc = "except"
    /\ wdb' = IF LastAttempt(wdb.attempt)
              THEN [wdb EXCEPT !.pc = "raised"]
              ELSE [wdb EXCEPT !.pc = "sleep"]
    /\ UNCHANGED <<acctVars, tokVars, mpc, mcall, rpc, rcall, calls,
                   creating>>

\* time.sleep(retry_delay), then the for statement: the next attempt, or
\* the statements after the loop once range(1, max_retries + 1) is used up
WaitSleep ==
    /\ wdb.pc = "sleep"
    /\ wdb' = IF wdb.attempt < max_retries
              THEN [wdb EXCEPT !.pc = "connect", !.attempt = @ + 1,
                               !.slept = @ + retry_delay]
              ELSE [wdb EXCEPT !.pc = "after_loop",
                               !.slept = @ + retry_delay]
    /\ UNCHANGED <<acctVars, tokVars, mpc, mcall, rpc, rcall, calls,
                   creating>>

\* ------------------------------------------------------------------------
\* Create requests of the admin account in flight at the same time, each in
\* two steps: UserService.create_user counts the active users, then
\* serializer.save() inserts the row.  No transaction or lock spans the two.
\* The accounts they create are active and lie beyond UserIds.
\* ------------------------------------------------------------------------
CreateIds == 1..MaxCreates

\* require_permission('auth.add_user') and the quota check
CreateCheck(i) ==
    /\ creating[i] = "idle"
    /\ AdminId \in exists \cap active
    /\ has_permission(cache, AdminId, EffectivePerms(AdminId), AddUser)
    /\ cache' = ResolveCache(cache, AdminId, EffectivePerms(AdminId))
    /\ IF QuotaReached(Cardinality(active) + untracked)
       THEN /\ last' = Result("create", AdminId, Anon, 400, "quota")
            /\ UNCHANGED creating
       ELSE /\ creating' = [creating EXCEPT ![i] = "checked"]
            /\ UNCHANGED last
    /\ UNCHANGED <<exists, active, superuser, groups, directPerms,
                   groupPerms, deletedAt, password>>
    /\ UNCHANGED <<tokVars, profVars, mpc, mcall, rpc, rcall, calls, wdb>>

\* serializer.save(): User.objects.create_user(...)
CreateInsert(i) ==
    /\ creating[i] = "checked"
    /\ untracked < MaxUntracked
    /\ untracked' = untracked + 1
    /\ creating' = [creating EXCEPT ![i] = "idle"]
    /\ last' = Result("create", AdminId, Anon, 201, "")
    /\ UNCHANGED <<exists, active, superuser, groups, directPerms,
                   groupPerms, deletedAt, password, cache, profiles,
                   employeeId>>
    /\ UNCHANGED <<tokVars, mpc, mcall, rpc, rcall, calls, wdb>>

\* ------------------------------------------------------------------------
\* Initial states
\* ------------------------------------------------------------------------
\* The role permissions the deployment starts with: the seeded roles_config,
\* or Operadores widened through /admin/ (or by an earlier roles_config)
InitGroupPerms ==
    {RolesConfig, [RolesConfig EXCEPT ![Operadores] = AllPermissions]}

\* after migrate, seed_roles and createsuperuser_auto: the admin account
\* exists, is a superuser and is a member of Administradores
InitAccounts ==
    /\ exists = {AdminId}
    /\ active = {AdminId}
    /\ superuser = {AdminId}
    /\ groups = [u \in UserIds |->
                    IF u = AdminId THEN {Administradores} ELSE {}]
    /\ directPerms = [u \in UserIds |-> {}]
    /\ groupPerms = RolesConfig
    /\ deletedAt = {}
    /\ password = [u \in UserIds |-> make_password(InitialPassword)]
    /\ cache = EmptyCache
    /\ last = NoResult
    /\ profiles = [u \in UserIds |-> create_user_profile(0, u = AdminId)]
    /\ employeeId = [u \in UserIds |-> NoEmployeeId]
    /\ untracked = 0

\* after seed_demo_data as well: the other accounts are the demo operators,
\* members of Operadores; the role permissions are those of InitGroupPerms
InitDemo ==
    /\ exists = UserIds
    /\ active = UserIds
    /\ superuser = {AdminId}
    /\ groups = [u \in UserIds |->
                    IF u = AdminId THEN {Administradores} ELSE {Operadores}]
    /\ directPerms = [u \in UserIds |-> {}]
    /\ groupPerms \in InitGroupPerms
    /\ deletedAt = {}
    /\ password = [u \in UserIds |-> make_password(InitialPassword)]
    /\ cache = EmptyCache
    /\ last = NoResult
    /\ profiles = [u \in UserIds |-> create_user_profile(0, TRUE)]
    /\ employeeId = [u \in UserIds |-> NoEmployeeId]
    /\ untracked = 0

InitTokens ==
    /\ now = 0
    /\ refreshIssued = {}
    /\ accessIssued = {}
    /\ blacklist = {}
    /\ resp = NoResp

InitRace ==
    /\ mpc = "idle"
    /\ mcall = NoCall
    /\ rpc = "idle"
    /\ rcall = NoRead
    /\ calls = NoCalls
    /\ wdb = WaitStart
    /\ creating = [i \in CreateIds |-> "idle"]

\* ------------------------------------------------------------------------
\* Spec: sequential account requests, starting with the admin account
\* ------------------------------------------------------------------------
Init == InitAccounts /\ InitTokens /\ InitRace

Next ==
    \/ \E actor \in UserIds, target \in UserIds,
          d \in {x \in UpdateInputs : NoProfileData(x)} :
          ViewUpdate(actor, target, d)
    \/ \E actor \in UserIds, target \in UserIds : ViewDestroy(actor, target)
    \/ \E actor \in UserIds, d \in {x \in CreateInputs : NoProfileData(x)} :
          ViewCreate(actor, d)
    \/ \E actor \in UserIds, target \in UserIds,
          g \in Groups \cup {NoSuchGroup} : assign_role(actor, target, g)
    \/ \E actor \in UserIds, target \in UserIds,
          g \in Groups \cup {NoSuchGroup} : remove_role(actor, target, g)
    \/ \E u \in UserIds : Resolve(u)
    \/ \E u \in UserIds : CacheExpire(u)

Spec == Init /\ [][Next]_vars

\* ------------------------------------------------------------------------
\* SpecAuth: the token endpoints over the clock, with soft deletes
\* ------------------------------------------------------------------------
InitAuth ==
    /\ InitDemo
    /\ groupPerms = RolesConfig
    /\ InitTokens
    /\ InitRace

NextAuth ==
    \/ \E u \in UserIds \cup {NoSuchUser}, raw \in Passwords : Login(u, raw)
    \/ \E t \in refreshIssued \cup {Garbage} : Refresh(t)
    \/ \E a \in accessIssued \cup {Garbage},
          t \in refreshIssued \cup {Garbage} : Logout(a, t)
    \/ \E a \in accessIssued \cup {Garbage} : Verify(a)
    \/ \E actor \in UserIds, target \in UserIds : ViewDestroy(actor, target)
    \/ Tick

SpecAuth == InitAuth /\ [][NextAuth]_vars

\* ------------------------------------------------------------------------
\* SpecNoBlacklist: login, logout and verify of a deployment whose
\* INSTALLED_APPS lacks the blacklist app
\* ------------------------------------------------------------------------
NextNoBlacklist ==
    \/ \E u \in UserIds \cup {NoSuchUser}, raw \in Passwords : Login(u, raw)
    \/ \E a \in accessIssued \cup {Garbage},
          t \in refreshIssued \cup {Garbage} : LogoutNoBlacklist(a, t)
    \/ \E a \in accessIssued \cup {Garbage} : Verify(a)
    \/ Tick

SpecNoBlacklist == InitAuth /\ [][NextNoBlacklist]_vars

\* ------------------------------------------------------------------------
\* SpecSeed: the roles are seeded again while accounts hold them
\* ------------------------------------------------------------------------
InitSeed == InitDemo /\ InitTokens /\ InitRace

NextSeed ==
    \/ seed_roles
    \/ \E actor \in UserIds, target \in UserIds,
          g \in Groups \cup {NoSuchGroup} : assign_role(actor, target, g)
    \/ \E actor \in UserIds, target \in UserIds,
          g \in Groups \cup {NoSuchGroup} : remove_role(actor, target, g)
    \/ \E u \in UserIds : Resolve(u)
    \/ \E u \in UserIds : CacheExpire(u)

SpecSeed == InitSeed /\ [][NextSeed]_vars

\* ------------------------------------------------------------------------
\* SpecInvalidate: the invalidation calls between resolves, role changes
\* and deletes
\* ------------------------------------------------------------------------
NextInvalidate ==
    \/ \E g \in Groups \cup {NoSuchGroup} : InvalidateGroup(g)
    \/ \E id \in UserIds \cup {NoSuchUser} : Invalidate(id)
    \/ \E u \in UserIds : Resolve(u)
    \/ \E actor \in UserIds, target \in UserIds,
          g \in Groups \cup {NoSuchGroup} : assign_role(actor, target, g)
    \/ \E actor \in UserIds, target \in UserIds,
          g \in Groups \cup {NoSuchGroup} : remove_role(actor, target, g)
    \/ \E actor \in UserIds, target \in UserIds : ViewDestroy(actor, target)

SpecInvalidate == InitSeed /\ [][NextInvalidate]_vars

\* ------------------------------------------------------------------------
\* SpecWait: one run of wait_for_db; every statement it reaches returns
\* ------------------------------------------------------------------------
NextWait ==
    \/ \E outcome \in ConnectOutcomes : WaitConnect(outcome)
    \/ WaitExcept
    \/ WaitSleep

SpecWait == Init /\ [][NextWait]_vars /\ WF_vars(NextWait)

\* ------------------------------------------------------------------------
\* SpecCeiling: create requests in flight together, next to updates that
\* set is_active and to deletes; the requests carry no groups
\* ------------------------------------------------------------------------
NoGroupData(d) == d.group_ids = {}

NextCeiling ==
    \/ \E i \in CreateIds : CreateCheck(i)
    \/ \E i \in CreateIds : CreateInsert(i)
    \/ \E d \in {x \in CreateInputs : NoProfileData(x) /\ NoGroupData(x)} :
          ViewCreate(AdminId, d)
    \/ \E target \in UserIds,
          d \in {x \in UpdateInputs : NoProfileData(x) /\ NoGroupData(x)} :
          ViewUpdate(AdminId, target, d)
    \/ \E target \in UserIds : ViewDestroy(AdminId, target)

SpecCeiling == Init /\ [][NextCeiling]_vars

\* ------------------------------------------------------------------------
\* SpecGate: the permission gate evaluated between role changes
\* ------------------------------------------------------------------------
InitGate == InitDemo /\ InitTokens /\ InitRace

NextGate ==
    \/ \E u \in UserIds \cup {Anon}, a \in ViewActions : CheckPermission(u, a)
    \/ \E actor \in UserIds, target \in UserIds,
          g \in Groups \cup {NoSuchGroup} : assign_role(actor, target, g)
    \/ \E actor \in UserIds, target \in UserIds,
          g \in Groups \cup {NoSuchGroup} : remove_role(actor, target, g)
    \/ \E u \in UserIds : Resolve(u)
    \/ \E u \in UserIds : CacheExpire(u)

SpecGate == InitGate /\ [][NextGate]_vars

\* ------------------------------------------------------------------------
\* SpecLife: accounts and their profiles through create, update, soft
\* delete and restore
\* ------------------------------------------------------------------------
NextLife ==
    \/ \E actor \in UserIds, d \in CreateInputs : ViewCreate(actor, d)
    \/ \E actor \in UserIds, target \in UserIds, d \in UpdateInputs :
          ViewUpdate(actor, target, d)
    \/ \E actor \in UserIds, target \in UserIds : ViewDestroy(actor, target)
    \/ \E u \in UserIds : ProfileRestore(u)

SpecLife == Init /\ [][NextLife]_vars

\* ------------------------------------------------------------------------
\* SpecQuota: create against the ceiling of active accounts
\* ------------------------------------------------------------------------
NextQuota ==
    \/ \E actor \in UserIds, d \in {x \in CreateInputs : NoProfileData(x)} :
          ViewCreate(actor, d)
    \/ \E actor \in UserIds, target \in UserIds : ViewDestroy(actor, target)
    \/ createsuperuser_auto

SpecQuota == Init /\ [][NextQuota]_vars

\* ------------------------------------------------------------------------
\* SpecResolve: the resolver called for accounts, for ids without a row
\* and for requests without credentials, between account requests
\* ------------------------------------------------------------------------
NextResolve ==
    \/ \E u \in UserIds : Resolve(u)
    \/ ResolveAnonymous
    \/ \E id \in UserIds : get_or_compute(id)
    \/ \E u \in UserIds : CacheExpire(u)
    \/ \E actor \in UserIds, d \in {x \in CreateInputs : NoProfileData(x)} :
          ViewCreate(actor, d)
    \/ \E actor \in UserIds, target \in UserIds,
          d \in {x \in UpdateInputs : NoProfileData(x)} :
          ViewUpdate(actor, target, d)
    \/ \E actor \in UserIds, target \in UserIds : ViewDestroy(actor, target)

SpecResolve == Init /\ [][NextResolve]_vars

\* ------------------------------------------------------------------------
\* SpecProfile: the soft delete operations of the profile model next to
\* create and delete of accounts
\* ------------------------------------------------------------------------
NextProfile ==
    \/ \E actor \in UserIds, d \in CreateInputs : ViewCreate(actor, d)
    \/ \E actor \in UserIds, target \in UserIds : ViewDestroy(actor, target)
    \/ \E u \in UserIds : ProfileDelete(u)
    \/ \E u \in UserIds : ProfileRestore(u)
    \/ \E u \in UserIds : ProfileHardDelete(u)

SpecProfile == Init /\ [][NextProfile]_vars

\* ------------------------------------------------------------------------
\* SpecPassword: password changes between role changes
\* ------------------------------------------------------------------------
InitPassword == InitDemo /\ groupPerms = RolesConfig /\ InitTokens /\ InitRace

NextPassword ==
    \/ \E actor \in UserIds, target \in UserIds, d \in PasswordInputs :
          ViewChangePassword(actor, target, d)
    \/ \E u \in UserIds, old \in Passwords, new \in Passwords :
          change_password(u, old, new)
    \/ \E actor \in UserIds, target \in UserIds,
          g \in Groups \cup {NoSuchGroup} : remove_role(actor, target, g)

SpecPassword == InitPassword /\ [][NextPassword]_vars

\* ------------------------------------------------------------------------
\* SpecRace: a role change interleaved with a resolving request
\* ------------------------------------------------------------------------
InitRaceSpec ==
    /\ InitDemo
    /\ groupPerms = RolesConfig
    /\ InitTokens
    /\ InitRace

NextRace ==
    \/ \E op \in {"assign_role", "remove_role"}, target \in UserIds,
          g \in Groups : MutCommit(op, target, g)
    \/ MutInvalidate
    \/ \E target \in UserIds : DelWrite(target)
    \/ DelInvalidate
    \/ DelCommit
    \/ MutDone
    \/ \E u \in UserIds : ResGet(u)
    \/ ResCompute
    \/ ResSet

SpecRace == InitRaceSpec /\ [][NextRace]_vars

\* ------------------------------------------------------------------------
\* SpecMiss: resolving calls that overlap on a cache miss; the roles of an
\* account change only while no call for it is in flight
\* ------------------------------------------------------------------------
NextMiss ==
    \/ \E i \in CallIds, u \in UserIds : CallGet(i, u)
    \/ \E i \in CallIds : CallCompute(i)
    \/ \E i \in CallIds : CallSet(i)
    \/ \E u \in UserIds : CacheExpire(u)
    \/ \E target \in UserIds, g \in Groups :
          ~InFlight(target) /\ assign_role(AdminId, target, g)
    \/ \E target \in UserIds, g \in Groups :
          ~InFlight(target) /\ remove_role(AdminId, target, g)

SpecMiss == InitRaceSpec /\ [][NextMiss]_vars

\* ------------------------------------------------------------------------
\* Properties
\* ------------------------------------------------------------------------
AccountOps == {"create", "update", "destroy", "assign_role", "remove_role"}
Succeeded(r) == r.status \in {200, 201, 204}

\* what get_user_permissions_cached(u) would return if called now
ResolveNow(u) == ResolveValue(cache, u, EffectivePerms(u))

\* C5: right after a role of P was granted or revoked (assign_role,
\* remove_role, update with group_ids), resolve(P) returns the permission
\* set of P's roles as they are now, whatever the cache held before.
C5_CacheCoherence ==
    (/\ last.op \in {"assign_role", "remove_role", "update"}
     /\ Succeeded(last)
     /\ "groups" \in last.changed)
        => ResolveNow(last.target) = EffectivePerms(last.target)

\* C5 witness: a role was just removed from an account that still has
\* permissions left to resolve
C5_Witness ==
    /\ last.op = "remove_role"
    /\ Succeeded(last)
    /\ last.target \notin superuser
    /\ last.target \in active
    /\ EffectivePerms(last.target) = {ViewUser}

\* C7: no request in which the actor is its own target succeeds in making
\* the actor inactive, soft-deleting it, or taking Administradores from it.
C7_SelfProtection ==
    [][(/\ last'.op \in AccountOps
        /\ Succeeded(last')
        /\ last'.actor = last'.target)
          => LET a == last'.actor
             IN  /\ ~(a \in active /\ a \notin active')
                 /\ ~(a \notin deletedAt /\ a \in deletedAt')
                 /\ ~(Administradores \in groups[a]
                        /\ Administradores \notin groups'[a])]_vars

\* C8: the gate refuses an unauthenticated principal, lets a superuser
\* through, lets any authenticated principal through when the action has no
\* mapping or an empty one, and otherwise decides by whether every required
\* permission is in resolve(principal).
C8_GateDecision ==
    last.op = "gate" =>
        last.allowed =
            (IF last.actor = Anon THEN FALSE
             ELSE IF last.actor \in superuser THEN TRUE
             ELSE IF last.action \notin DOMAIN required_permissions THEN TRUE
             ELSE IF required_permissions[last.action] = {} THEN TRUE
             ELSE \A perm \in required_permissions[last.action] :
                      perm \in ResolveNow(last.actor))

\* C8 witness: an authenticated principal that is no superuser was refused
\* on a mapped action
C8_Witness ==
    /\ last.op = "gate"
    /\ last.actor \in exists \ superuser
    /\ last.action = "destroy"
    /\ ~last.allowed

\* C9: an account operation of an (active) superuser never fails for a
\* missing permission.
C9_SuperuserBypass ==
    (/\ last.op \in AccountOps
     /\ last.actor \in superuser \cap active)
        => last.err # "permission_denied"

\* C10: after seed_roles, resolve(P) of every holder P of a role whose
\* permission set it changed returns P's permissions as they are now.
C10_SeedInvalidates ==
    last.op = "seed_roles" =>
        \A u \in exists :
            groups[u] \cap last.changed # {}
                => ResolveNow(u) = EffectivePerms(u)

\* the error code the token serializers give an expired or badly signed
\* token (serializers.py: code='invalid_token')
InvalidTokenCode == "invalid_token"

RotationEnabled == ROTATE_REFRESH_TOKENS /\ BLACKLIST_AFTER_ROTATION

\* would POST /api/auth/refresh/ accept t now
RefreshAccepts(t) ==
    /\ t \in refreshIssued
    /\ now < t.exp
    /\ ~(BLACKLIST_INSTALLED /\ t.jti \in blacklist)

\* C1: with rotation enabled, a refresh token that refresh has just accepted
\* is not accepted by refresh again.
C1_Rotation ==
    (RotationEnabled /\ resp.op = "refresh" /\ resp.status = 200)
        => ~RefreshAccepts(resp.presented)

\* C2: with rotation enabled, a successful refresh(t) puts t's id into the
\* Revocation Set and answers with a new refresh token next to the new
\* access token.
C2_RefreshRotates ==
    (RotationEnabled /\ resp.op = "refresh" /\ resp.status = 200)
        => /\ resp.presented.jti \in blacklist
           /\ resp.access \in accessIssued
           /\ resp.hasRefresh
           /\ resp.refresh \in refreshIssued
           /\ resp.refresh.jti # resp.presented.jti

C3_Outcomes ==
    /\ resp.op = "refresh" =>
          /\ RefreshAccepts(resp.presented) => resp.status = 200
          /\ (resp.presented \in refreshIssued
                /\ resp.presented.jti \in blacklist)
               => (resp.status = 400 /\ resp.code = InvalidTokenCode)
          /\ (resp.presented \in refreshIssued
                /\ resp.presented.jti \in blacklist
                /\ now < resp.presented.exp)
               => resp.detail = "blacklisted"
    /\ (resp.op = "logout" /\ resp.status = 200)
          => resp.presented.jti \in blacklist

C4_LogoutKeepsAccess ==
    resp.op = "verify" =>
        /\ resp.status = 200
             <=> (resp.presented \in accessIssued /\ now < resp.presented.exp)
        /\ resp.status = 200 => resp.uid = resp.presented.uid

\* C4 witness: verify succeeded on an access token whose paired refresh
\* token is in the Revocation Set
C4_Witness ==
    /\ resp.op = "verify"
    /\ resp.status = 200
    /\ resp.presented.jti \in blacklist

\* C6: once a role change on P has returned, no cache entry of P holds a
\* permission set other than the one P's roles give now, whatever resolving
\* request ran next to it.
C6_ReadYourWrites ==
    (mpc = "returned" /\ mcall.op \in {"assign_role", "remove_role"}) =>
        (CacheHit(cache, mcall.target)
            => cache[mcall.target] = EffectivePerms(mcall.target))

\* the account rows: users, flags, memberships and profiles
AccountRowsUnchanged ==
    /\ exists' = exists
    /\ active' = active
    /\ superuser' = superuser
    /\ groups' = groups
    /\ directPerms' = directPerms
    /\ password' = password
    /\ profiles' = profiles
    /\ employeeId' = employeeId
    /\ deletedAt' = deletedAt

\* every cache entry of the users in S is still there, with its value
CacheEntriesKept(S) ==
    \A u \in S :
        CacheHit(cache, u) => (CacheHit(cache', u) /\ cache'[u] = cache[u])

\* C11: a create that passed the permission checks is refused for the quota
\* exactly when the number of active accounts is at or above the ceiling at
\* that moment, and a refused create leaves no user, profile or membership.
C11_QuotaOnCreate ==
    [][(/\ last'.op = "create"
        /\ last'.err \notin {"gate", "permission_denied"})
          => /\ (Cardinality(active) + untracked >= max_users)
                   <=> (last'.err = "quota")
             /\ last'.err = "quota"
                   => (last'.status = 400 /\ AccountRowsUnchanged)]_vars

\* C11 witness: a create was refused with the count exactly at the ceiling
C11_Witness ==
    /\ last.op = "create"
    /\ last.err = "quota"
    /\ Cardinality(active) + untracked = max_users

C13_CreateAllOrNothing ==
    [][(last'.op = "create" /\ ~Succeeded(last'))
          => AccountRowsUnchanged]_vars

C15_SelfDeletionFirst ==
    (last.op = "destroy" /\ last.actor = last.target)
        => last.err = "self_deletion"

\* C15 (amended): a delete of oneself always fails with 403 and changes no
\* row and no cache entry that exists; it fails as a self-deletion when the
\* resolved permissions of the actor hold auth.delete_user, and with the
\* permission refusal, which is checked first, when they do not.
C15_SelfDeleteRefused ==
    [][(last'.op = "destroy" /\ last'.actor = last'.target)
          => /\ last'.status = 403
             /\ last'.err \in {"gate", "permission_denied", "self_deletion"}
             /\ (last'.err = "self_deletion")
                   <=> (DeleteUser \in ResolveNow(last'.actor))
             /\ AccountRowsUnchanged
             /\ CacheEntriesKept(UserIds)]_vars

\* C15 witness: an account without auth.delete_user asked to delete itself
\* and met the permission refusal
C15_Witness ==
    /\ last.op = "destroy"
    /\ last.actor = last.target
    /\ last.actor \notin superuser
    /\ last.err = "gate"

C17_InvalidateAfterCommit ==
    (/\ rpc = "computed"
     /\ rcall.late
     /\ mcall.op = "delete_user"
     /\ mcall.target = rcall.target)
        => rcall.perms =
               GetAllPermissions(active \ {mcall.target}, superuser, groups,
                                 directPerms, groupPerms, mcall.target)

\* the one answer of login to bad credentials
InvalidCredentials ==
    Response("login", NoToken, 400, "invalid_credentials",
             "Credenciales invalidas")

\* C18: login with the right password of an active account succeeds and
\* answers with tokens of that account; login with an unknown username and
\* login with a wrong password get one and the same answer.
C18_Authenticate ==
    [][\A u \in UserIds \cup {NoSuchUser}, raw \in Passwords :
          Login(u, raw)
            => /\ (u \in exists \cap active
                     /\ check_password(password[u], raw))
                    => /\ resp'.status = 200
                       /\ resp'.uid = u
                       /\ resp'.access.uid = u
                       /\ resp'.refresh.uid = u
                       /\ resp'.access \in accessIssued'
                       /\ resp'.refresh \in refreshIssued'
               /\ (u \notin exists
                     \/ (u \in exists /\ ~check_password(password[u], raw)))
                    => /\ resp' = InvalidCredentials
                       /\ refreshIssued' = refreshIssued
                       /\ accessIssued' = accessIssued]_vars

\* C18 witness: bad credentials were refused after a login had succeeded
C18_Witness ==
    /\ resp = InvalidCredentials
    /\ refreshIssued # {}

\* C19: login with the right password of an account that exists and is
\* inactive is refused as an inactive account and issues no token.
C19_InactiveAccount ==
    [][\A u \in UserIds, raw \in Passwords :
          (/\ Login(u, raw)
           /\ u \in exists \ active
           /\ check_password(password[u], raw))
            => /\ resp'.status = 400
               /\ resp'.code = "inactive_user"
               /\ refreshIssued' = refreshIssued
               /\ accessIssued' = accessIssued]_vars

C20_Outcomes ==
    (resp.op = "verify" /\ resp.presented \in accessIssued)
        => IF now < resp.presented.exp
           THEN /\ resp.status = 200
                /\ resp.uid = resp.presented.uid
                /\ resp.exp = resp.presented.exp
           ELSE /\ resp.status = 400
                /\ resp.code = InvalidTokenCode

\* C20: verify of an issued access token succeeds, with its user id and
\* expiry, at every time before the expiry and fails as an invalid token from
\* the expiry instant on; the clock never runs back, and nothing but the
\* token and the clock decides.
C20_AccessTokenTrack ==
    /\ []C20_Outcomes
    /\ [][now' >= now]_vars

\* C20 witness: verify succeeded on the token of an account that has been
\* soft deleted since
C20_Witness ==
    /\ resp.op = "verify"
    /\ resp.status = 200
    /\ resp.presented.uid \notin active

\* C21: without the blacklist app a logout never reports success and
\* records nothing; a logout that presents a valid refresh token on an
\* authenticated request fails as blacklist_not_enabled, a code other than
\* the one an invalid token gets.
C21_NoBlacklistSurfaces ==
    [][\A a \in accessIssued \cup {Garbage},
         t \in refreshIssued \cup {Garbage} :
          LogoutNoBlacklist(a, t)
            => /\ resp'.status # 200
               /\ blacklist' = blacklist
               /\ (IsAuthenticated(a) /\ t \in refreshIssued /\ now < t.exp)
                    => /\ resp'.status = 400
                       /\ resp'.code = "blacklist_not_enabled"
                       /\ resp'.code # InvalidTokenCode]_vars

\* C21 witness: a logout with a valid refresh token met the missing app
C21_Witness ==
    /\ resp.op = "logout"
    /\ resp.code = "blacklist_not_enabled"
    /\ resp.presented \in refreshIssued
    /\ now < resp.presented.exp

IsAdmin(a) == a \in superuser \/ ChangeUser \in ResolveNow(a)

\* C23: at the change_password endpoint every authenticated account changes
\* its own password when the old password is right and the new one matches
\* its confirmation; an admin (superuser or holder of auth.change_user)
\* changes the password of another account without supplying old_password;
\* an account that is no admin is refused on another account (with 403 when
\* it can see the account and the body is in order) and nothing changes.
C23_ChangePasswordEndpoint ==
    [][\A a \in UserIds, t \in UserIds, d \in PasswordInputs :
          ViewChangePassword(a, t, d)
            => /\ (/\ a = t
                   /\ d.has_old
                   /\ check_password(password[a], d.old)
                   /\ d.new = d.confirm)
                    => /\ last'.status = 200
                       /\ check_password(password'[t], d.new)
               /\ (/\ a # t
                   /\ t \in exists
                   /\ IsAdmin(a)
                   /\ ~d.has_old
                   /\ d.new = d.confirm)
                    => /\ last'.status = 200
                       /\ check_password(password'[t], d.new)
               /\ (a # t /\ t \in exists /\ ~IsAdmin(a))
                    => /\ last'.status \in {400, 403, 404}
                       /\ password' = password
                       /\ (/\ ViewUser \in ResolveNow(a)
                           /\ ChangePasswordErrors(a, d) = "")
                            => last'.status = 403]_vars

\* the rows and fields a soft delete or restore of u's profile leaves alone
ProfileFrame(u) ==
    /\ profiles' = profiles
    /\ employeeId' = employeeId
    /\ exists' = exists
    /\ active' = active
    /\ \A v \in UserIds \ {u} :
          is_deleted(deletedAt', v) = is_deleted(deletedAt, v)

\* C24: delete() on a profile sets deleted_at and keeps the row; restore()
\* after it clears deleted_at; is_deleted tells whether deleted_at is set;
\* neither changes another field or another profile; a profile row goes
\* only by hard_delete.
C24_SoftDeleteRoundTrip ==
    [][/\ \A u \in UserIds :
            /\ ProfileDelete(u)
                 => (is_deleted(deletedAt', u) /\ ProfileFrame(u))
            /\ ProfileRestore(u)
                 => /\ is_deleted(deletedAt, u)
                    /\ ~is_deleted(deletedAt', u)
                    /\ ProfileFrame(u)
            /\ profiles'[u] < profiles[u] => last'.op = "hard_delete"
       /\ \A u \in UserIds : is_deleted(deletedAt, u) => profiles[u] = 1]_vars

\* C24 witness: a profile that carries an employee id was soft deleted and
\* restored
C24_Witness ==
    /\ last.op = "restore"
    /\ employeeId[last.target] \in EmployeeIds
    /\ ~is_deleted(deletedAt, last.target)
    /\ profiles[last.target] = 1

\* C25: when resolving calls for one account overlap on a cache miss and
\* its grants do not change meanwhile, every call returns the account's
\* effective permissions, every call in flight is about to write that same
\* value, and after each write the cache entry is that value.
C25_ConcurrentMisses ==
    [][\A i \in CallIds :
          CallSet(i)
            => LET t == calls[i].target
               IN  /\ calls[i].perms = EffectivePerms(t)
                   /\ CacheHit(cache', t)
                   /\ cache'[t] = EffectivePerms(t)
                   /\ \A j \in CallIds :
                         (calls[j].pc = "computed" /\ calls[j].target = t)
                           => calls[j].perms = calls[i].perms]_vars

\* C25 witness: one call has written the entry of an account that is no
\* superuser while another call for it has still to write
C25_Witness ==
    /\ last.op = "resolve"
    /\ last.target \notin superuser
    /\ CacheHit(cache, last.target)
    /\ \E j \in CallIds :
          calls[j].pc = "computed" /\ calls[j].target = last.target

\* C26: resolve returns the entry of the account as it is when the cache
\* holds one, and leaves the cache alone; on a miss for an account that
\* exists it returns the permissions computed from the account's rows and
\* stores them under the account's key; for a request without credentials
\* and for an id without a row it returns the empty set and stores nothing;
\* it never touches the entry of another account, nor any row.
C26_LookupOrder ==
    [][last'.op = "resolve"
          => LET t == last'.target
             IN  /\ (t # Anon /\ CacheHit(cache, t))
                      => (last'.value = cache[t] /\ cache' = cache)
                 /\ (t \in exists /\ ~CacheHit(cache, t))
                      => /\ last'.value = EffectivePerms(t)
                         /\ CacheHit(cache', t)
                         /\ cache'[t] = EffectivePerms(t)
                 /\ (t = Anon \/ (t \notin exists /\ ~CacheHit(cache, t)))
                      => (last'.value = {} /\ cache' = cache)
                 /\ CacheEntriesKept(UserIds \ {t})
                 /\ DOMAIN cache' \subseteq DOMAIN cache \cup {t}
                 /\ AccountRowsUnchanged]_vars

\* C26 witness: resolve returned an entry that no longer equals what the
\* rows of the account give, without recomputing it
C26_Witness ==
    /\ last.op = "resolve"
    /\ last.target \in exists
    /\ last.value # EffectivePerms(last.target)
    /\ last.value = cache[last.target]

\* the accounts that hold group g
Holders(g) == {u \in exists : g \in groups[u]}

\* the entries of the ids in S are as they were, present or absent
CacheSameOn(S) ==
    \A u \in S :
        /\ CacheHit(cache', u) = CacheHit(cache, u)
        /\ CacheHit(cache, u) => cache'[u] = cache[u]

\* C27: invalidate_group removes the entry of every account that holds the
\* group now and leaves the entry of every other account as it was; for a
\* group id without a row it changes nothing; invalidate of one id removes
\* the entry of that id, present or not, and leaves every other entry as it
\* was; neither writes a row.
C27_Invalidation ==
    [][/\ \A g \in Groups \cup {NoSuchGroup} :
            InvalidateGroup(g)
              => /\ \A u \in Holders(g) : ~CacheHit(cache', u)
                 /\ CacheSameOn(UserIds \ Holders(g))
                 /\ g \notin Groups => cache' = cache
                 /\ AccountRowsUnchanged
       /\ \A id \in UserIds \cup {NoSuchUser} :
            Invalidate(id)
              => /\ ~CacheHit(cache', id)
                 /\ CacheSameOn(UserIds \ {id})
                 /\ AccountRowsUnchanged]_vars

\* C27 witness: invalidate_group has just run for a group that one account
\* holds and another, whose entry is still cached, does not
C27_Witness ==
    /\ last.op = "invalidate_group"
    /\ \E g \in last.changed, u \in exists, v \in exists :
          /\ u \in Holders(g)
          /\ v \notin Holders(g)
          /\ ~CacheHit(cache, u)
          /\ CacheHit(cache, v)

WaitEnded == wdb.pc \in {"returned", "raised"}

C28_Safety ==
    /\ wdb.attempt \in 1..max_retries
    /\ wdb.pc # "after_loop"
    /\ wdb.slept <= (max_retries - 1) * retry_delay
    /\ wdb.pc = "returned" => wdb.failures = wdb.attempt - 1
    /\ (wdb.pc = "raised" /\ wdb.kind = "OperationalError")
         => /\ wdb.failures = max_retries
            /\ wdb.err = max_retries
            /\ wdb.slept = (max_retries - 1) * retry_delay
    /\ wdb.failures = max_retries => wdb.pc \in {"except", "raised"}

\* C28: wait_for_db ends; it makes at most max_retries attempts, returns at
\* the first attempt that connects and attempts nothing after it, raises
\* the OperationalError of the last attempt again when all of them failed,
\* does not sleep after that attempt and never runs the statements after
\* the loop.
C28_WaitTerminates ==
    /\ []C28_Safety
    /\ [][WaitEnded => wdb' = wdb]_vars
    /\ <>WaitEnded

\* C28 witness: every attempt failed and the command raised
C28_Witness ==
    /\ wdb.pc = "raised"
    /\ wdb.kind = "OperationalError"
    /\ wdb.attempt = max_retries

\* C29: whatever way create requests and updates that set is_active
\* interleave, the number of active accounts stays at or below max_users.
C29_ActiveCeiling == Cardinality(active) + untracked <= max_users

\* C30: between requests, after any sequence of create, update, delete,
\* assign_role, remove_role and resolve, every cache entry that exists is
\* the permission set the rows of its account give now.
C30_QuiescentCacheAgreement ==
    \A u \in DOMAIN cache : cache[u] = EffectivePerms(u)

====
